---- MODULE Spec2Model ----
(***************************************************************************)
(* Model of homework.py: the start-up sequence of main() (check_tokens,    *)
(* telegram.Bot, get_current_time) and its endless poll loop               *)
(* (get_api_answer, check_response, parse_status, send_message, sleep).    *)
(* Texts are tuples of string fragments: an f-string is the tuple of its   *)
(* literal parts and its formatted arguments, in order.  Python's None is  *)
(* the empty tuple.  The source's Russian literals are given in English.   *)
(* Spec runs main() and records its history, LiveSpec runs it without the  *)
(* history, FnSpec calls check_response on its own.                        *)
(***************************************************************************)
EXTENDS Integers, Sequences, FiniteSets, TLC

VARIABLES
    PRACTICUM_TOKEN,        \* module globals, read once from the environment
    TELEGRAM_TOKEN,
    TELEGRAM_CHAT_ID,
    pc,                     \* position of main()
    current_timestamp,      \* locals of main()
    message,
    message_before,
    message_error,
    message_error_before,
    error,                  \* the exception bound by "except ... as error"
    uncaught,               \* the exception travelling out of main()
    arg,                    \* a function called on its own: the call
    returned,               \* ... and what it returned or raised, once made
    observe,                \* whether this behaviour records its history
    sent,                   \* history: last text given to send_message, per kind
    older,                  \* history: the status text given to it before that
    calls,                  \* history: kinds of external calls made so far
    cyc,                    \* history: what the cycle in progress has done
    prev                    \* history: summary of the cycle before it

vars == <<PRACTICUM_TOKEN, TELEGRAM_TOKEN, TELEGRAM_CHAT_ID, pc,
          current_timestamp, message, message_before, message_error,
          message_error_before, error, uncaught, arg, returned, observe,
          sent, older, calls, cyc, prev>>

-----------------------------------------------------------------------------
(* Bounds of the model: sizes of the input sets.                           *)

MaxHomeworks == 2       \* longest homeworks list the remote returns
NumDates == 1           \* distinct current_date values the remote returns
NumTimes == 1           \* distinct readings of the wall clock

-----------------------------------------------------------------------------
(* Constants of the program.                                               *)

None == <<>>

RETRY_TIME == 500

ENDPOINT == "https://practicum.yandex.ru/api/user_api/homework_statuses/"

HTTPStatus_OK == 200

HOMEWORK_VERDICTS ==
    [approved  |-> "Work checked: the reviewer liked everything. Hooray!",
     reviewing |-> "Work taken for review by the reviewer.",
     rejected  |-> "Work checked: the reviewer has remarks."]

\* str(value) inside an f-string, for an optional string
Str(value) == IF value = None THEN "None" ELSE value[1]

HEADERS == <<"Authorization", "OAuth", Str(PRACTICUM_TOKEN)>>

-----------------------------------------------------------------------------
(* Input sets.                                                             *)

\* os.getenv: the variable is unset (None), set to the empty string, or set
\* to a value
Unset(name) == {None, <<name>>}
UnsetOrEmpty(name) == {None, <<"">>, <<name>>}

ServerDates == {1000 + 100 * i : i \in 1..NumDates}
Times == {2000 + RETRY_TIME * i : i \in 1..NumTimes}

Statuses == {"approved", "reviewing", "rejected", "paused"}

\* elements of the homeworks list: JSON objects with or without the two keys
Homeworks ==
    {[homework_name |-> "X", status |-> s] : s \in Statuses}
    \cup {[homework_name |-> "Y", status |-> "approved"]}
    \cup {[homework_name |-> "X"]}
    \cup {[status |-> "approved"]}

\* decoded JSON values carry their Python type
Dict(d) == [t |-> "dict", v |-> d]
List(s) == [t |-> "list", v |-> s]
isinstance(value, type) == value.t = type

\* main() reads homeworks[0] only; the elements behind it are one valid
\* element and one of each invalid shape
TailHomeworks ==
    {[homework_name |-> "Y", status |-> "approved"],
     [homework_name |-> "Y", status |-> "paused"],
     [homework_name |-> "Y"],
     [status |-> "approved"]}

Tails == UNION {[1..n -> TailHomeworks] : n \in 0..(MaxHomeworks - 1)}

HomeworkLists == {<<>>} \cup {<<h>> \o tail : h \in Homeworks, tail \in Tails}

\* JSON objects the remote may answer with
Dicts ==
    {[homeworks |-> List(hs)] : hs \in HomeworkLists}
    \cup {[homeworks |-> List(hs), current_date |-> d] :
              hs \in HomeworkLists, d \in ServerDates}
    \cup {[homeworks |-> Dict(<<>>)]}
    \cup {[homeworks |-> Dict(<<>>), current_date |-> d] : d \in ServerDates}
    \cup {<<>>}
    \cup {[current_date |-> d] : d \in ServerDates}

Payloads == {Dict(d) : d \in Dicts} \cup {List(<<>>)}

\* bodies of an HTTP response: JSON text, or text that .json() cannot decode
Bodies == {[decodes |-> TRUE, json |-> p] : p \in Payloads}
          \cup {[decodes |-> FALSE]}

TransportErrors == {"ConnectionError"}
ErrorCodes == {503}

\* outcomes of requests.get: it raises, or it returns a response
Outcomes ==
    {[raises |-> TRUE, error |-> e] : e \in TransportErrors}
    \cup {[raises |-> FALSE, status_code |-> HTTPStatus_OK, body |-> b] :
              b \in Bodies}
    \cup {[raises |-> FALSE, status_code |-> c, body |-> [decodes |-> FALSE]] :
              c \in ErrorCodes}

-----------------------------------------------------------------------------
(* Results of the functions: a returned value or a raised exception.       *)

Return(value) == [ok |-> TRUE, val |-> value]
Raise(type, text) == [ok |-> FALSE, exc |-> [type |-> type, str |-> text]]

\* str() of a KeyError with one argument is the repr of that argument
KeyError(text) == Raise("KeyError", <<"'">> \o text \o <<"'">>)

\* dict.get(key, default)
Get(d, key, default) == IF key \in DOMAIN d THEN d[key] ELSE default

\* response.json()
json(body) ==
    IF body.decodes THEN Return(body.json)
    ELSE Raise("JSONDecodeError", <<"Expecting value">>)

Params(timestamp) == <<"from_date", ToString(timestamp)>>

get_api_answer(timestamp, outcome) ==
    IF outcome.raises
    THEN Raise("Exception",
               <<"Error in the GET request to the API:", outcome.error,
                 "Address:", ENDPOINT, "Headers:">> \o HEADERS
               \o <<"Parameters:">> \o Params(timestamp))
    ELSE IF outcome.status_code # HTTPStatus_OK
    THEN Raise("StatusCodeError",
               <<"Status code differs from 200. Received status:",
                 ToString(outcome.status_code),
                 "Address:", ENDPOINT, "Headers:">> \o HEADERS
               \o <<"Parameters:">> \o Params(timestamp))
    ELSE json(outcome.body)

\* variant: the key is read with response.get("homeworks", [])
check_response_get(response) ==
    IF ~isinstance(response, "dict")
    THEN Raise("TypeError",
               <<"The response is not a dict.", "Type of the object:",
                 response.t>>)
    ELSE IF "homeworks" \notin DOMAIN response.v
    THEN Return(<<>>)
    ELSE IF ~isinstance(response.v.homeworks, "list")
    THEN Raise("TypeError",
               <<"Homeworks is not a list.", "Type of the object:",
                 response.v.homeworks.t>>)
    ELSE Return(response.v.homeworks.v)

check_response(response) ==
    IF ~isinstance(response, "dict")
    THEN Raise("TypeError",
               <<"The response is not a dict.", "Type of the object:",
                 response.t>>)
    ELSE IF "homeworks" \notin DOMAIN response.v
    THEN KeyError(<<"No key homeworks in the dict.">>)
    ELSE IF ~isinstance(response.v.homeworks, "list")
    THEN Raise("TypeError",
               <<"Homeworks is not a list.", "Type of the object:",
                 response.v.homeworks.t>>)
    ELSE Return(response.v.homeworks.v)

\* variant: the verdict is read with HOMEWORK_VERDICTS.get(status, status)
parse_status_get(homework) ==
    IF "homework_name" \notin DOMAIN homework
    THEN KeyError(<<"The homework has no name.">>)
    ELSE IF "status" \notin DOMAIN homework
    THEN KeyError(<<"The homework has no status.">>)
    ELSE Return(<<"The review status of the work has changed",
                  homework.homework_name,
                  Get(HOMEWORK_VERDICTS, homework.status, homework.status)>>)

parse_status(homework) ==
    IF "homework_name" \notin DOMAIN homework
    THEN KeyError(<<"The homework has no name.">>)
    ELSE IF "status" \notin DOMAIN homework
    THEN KeyError(<<"The homework has no status.">>)
    ELSE IF homework.status \notin DOMAIN HOMEWORK_VERDICTS
    THEN KeyError(<<"Undocumented homework status:", homework.status>>)
    ELSE Return(<<"The review status of the work has changed",
                  homework.homework_name,
                  HOMEWORK_VERDICTS[homework.status]>>)

\* variant: the flag is overwritten by the last value looked at
check_tokens_last == TELEGRAM_CHAT_ID # None

check_tokens ==
    \A value \in {PRACTICUM_TOKEN, TELEGRAM_TOKEN, TELEGRAM_CHAT_ID} :
        value # None

\* every exception raised after the request is caught and replaced by the
\* clock reading; datetime.fromisoformat does not exist on the module
\* datetime, so the date_updated branch always ends in the handler
get_current_time(outcome, utcnow) ==
    IF outcome.raises
    THEN Raise(outcome.error, <<outcome.error>>)
    ELSE LET response_json == json(outcome.body) IN
         IF /\ response_json.ok
            /\ isinstance(response_json.val, "dict")
            /\ "homeworks" \in DOMAIN response_json.val.v
            /\ isinstance(response_json.val.v.homeworks, "list")
            /\ Len(response_json.val.v.homeworks.v) > 0
            /\ "status" \in DOMAIN response_json.val.v.homeworks.v[1]
            /\ response_json.val.v.homeworks.v[1].status = "approved"
            /\ "current_date" \in DOMAIN response_json.val.v
         THEN Return(response_json.val.v.current_date)
         ELSE Return(utcnow)

\* the text main() builds from a caught exception
ErrorMessage(exc) == <<"Program failure.">> \o exc.str

-----------------------------------------------------------------------------
(* The state machine of main().                                            *)

NoException == [type |-> "None", str |-> None]

\* variant: the exception of bot.send_message leaves send_message
send_message_raising(text, delivered) ==
    IF delivered THEN Return(None)
    ELSE Raise("TelegramError", <<"The message was not sent">>)

\* bot.send_message raises or not; the handler in send_message logs the
\* exception and returns normally
send_message(text, delivered) == Return(None)

NoCycle ==
    [ran |-> FALSE, cursor0 |-> 0, mb0 |-> None, meb0 |-> None,
     older0 |-> None, sent0 |-> [status |-> None, error |-> None],
     failed |-> FALSE, raised |-> NoException,
     rendered |-> None, sends |-> <<>>, sleeps |-> 0,
     validated |-> FALSE, dated |-> FALSE, date |-> 0, now |-> 0,
     empty |-> FALSE, bad |-> FALSE, first |-> <<>>]

\* what the next cycle remembers of the one before it
Summary(c) ==
    [ran |-> c.ran, failed |-> c.failed, rendered |-> c.rendered,
     nsends |-> Cardinality({i \in 1..Len(c.sends) :
                                c.sends[i].kind = "status"})]

Start ==
    /\ PRACTICUM_TOKEN \in Unset("practicum-token")
    /\ TELEGRAM_TOKEN \in UnsetOrEmpty("telegram-token")
    /\ TELEGRAM_CHAT_ID \in Unset("chat-id")
    /\ pc = "start"
    /\ current_timestamp = 0
    /\ message = None
    /\ message_before = None
    /\ message_error = None
    /\ message_error_before = None
    /\ error = NoException
    /\ uncaught = NoException
    /\ sent = [status |-> None, error |-> None]
    /\ older = None
    /\ calls = {}
    /\ cyc = NoCycle
    /\ prev = Summary(NoCycle)

\* main() is run: no function is called on its own
Init == Start /\ observe = TRUE /\ arg = None /\ returned = None

\* the same program, its history left unrecorded
LiveInit == Start /\ observe = FALSE /\ arg = None /\ returned = None

\* a history variable takes its new value only where history is recorded
Record(new, old) == IF observe THEN new ELSE old

fixed == <<PRACTICUM_TOKEN, TELEGRAM_TOKEN, TELEGRAM_CHAT_ID, observe, arg,
           returned>>
locals == <<current_timestamp, message, message_before, message_error,
            message_error_before>>

\* if not check_tokens(): raise TokensError(...)
CheckTokens ==
    /\ pc = "start"
    /\ IF check_tokens
       THEN pc' = "bot" /\ UNCHANGED uncaught
       ELSE /\ pc' = "exit"
            /\ uncaught' = Raise("TokensError", <<"Error in the tokens!!">>).exc
    /\ UNCHANGED <<fixed, locals, error, sent, older, calls, cyc, prev>>

\* bot = telegram.Bot(token=TELEGRAM_TOKEN): the constructor rejects a
\* malformed token, the empty one included, with InvalidToken
MakeBot ==
    /\ pc = "bot"
    /\ \E accepted \in BOOLEAN :
          /\ TELEGRAM_TOKEN = <<"">> => ~accepted
          /\ IF accepted
             THEN pc' = "get_time" /\ UNCHANGED uncaught
             ELSE /\ pc' = "exit"
                  /\ uncaught' = Raise("InvalidToken", <<"Invalid token">>).exc
    /\ UNCHANGED <<fixed, locals, error, sent, older, calls, cyc, prev>>

\* current_timestamp = get_current_time()
GetCurrentTime ==
    /\ pc = "get_time"
    /\ \E outcome \in Outcomes, utcnow \in Times :
          LET result == get_current_time(outcome, utcnow) IN
          IF result.ok
          THEN /\ current_timestamp' = result.val
               /\ pc' = "try"
               /\ UNCHANGED uncaught
          ELSE /\ uncaught' = result.exc
               /\ pc' = "exit"
               /\ UNCHANGED current_timestamp
    /\ calls' = Record(calls \cup {"get"}, calls)
    /\ UNCHANGED <<fixed, message, message_before, message_error,
                   message_error_before, error, sent, older, cyc, prev>>

\* variant: the clock replaces the cursor whatever the payload carries
NextTimestampClock(response, now) == now

\* current_timestamp = response.get('current_date', int(time.time()))
NextTimestamp(response, now) == Get(response, "current_date", now)

\* variants: the status text is sent only into an empty cache; it is sent
\* in every cycle
StatusChangedWhenEmpty(new, before) == before = None
StatusChangedAlways(new, before) == TRUE

\* variant: the comparison is by-passed while nothing has been sent yet
StatusChangedOrFirst(new, before) == new # before \/ before = None

\* variant: "if message:", the text is sent whenever there is one
StatusChangedUnlessNone(new, before) == new # None

\* if message != message_before:
StatusChanged(new, before) == new # before

\* variants: the error text is never sent; it is sent in every failed cycle
ErrorChangedNever(new, before) == FALSE
ErrorChangedAlways(new, before) == TRUE

\* if message_error != message_error_before:
ErrorChanged(new, before) == new # before

\* variant: the handler names one exception class
CaughtStatusCodeError(exc) == exc.type = "StatusCodeError"

\* except Exception as error: every exception raised in the try body is an
\* Exception
Caught(exc) == TRUE

Sending(kind, text, delivered) ==
    [kind |-> kind, text |-> text, delivered |-> delivered]

\* the body of the try statement: one poll, its validation, the rendering of
\* the first homework and the dispatch of the status message
TryBody ==
    /\ pc = "try"
    /\ \E outcome \in Outcomes, now \in Times, delivered \in BOOLEAN :
          \E response \in {get_api_answer(current_timestamp, outcome)} :
          \E homeworks \in {IF response.ok THEN check_response(response.val)
                            ELSE response} :
          \E parsed \in {IF homeworks.ok /\ homeworks.val # <<>>
                         THEN parse_status(homeworks.val[1])
                         ELSE Return(message)} :
          LET text == IF parsed.ok THEN parsed.val ELSE message
              changed == /\ homeworks.ok /\ parsed.ok
                         /\ StatusChanged(text, message_before)
              sending == IF changed THEN send_message(text, delivered)
                         ELSE Return(None)
              raised == IF ~homeworks.ok THEN homeworks.exc
                        ELSE IF ~parsed.ok THEN parsed.exc
                        ELSE IF ~sending.ok THEN sending.exc
                        ELSE NoException
          IN  /\ ~changed => delivered
              /\ ~(homeworks.ok /\ "current_date" \notin DOMAIN response.val.v)
                     => \A t \in Times : now <= t
              /\ current_timestamp' =
                     IF homeworks.ok THEN NextTimestamp(response.val.v, now)
                     ELSE current_timestamp
              /\ message' = text
              /\ message_before' = IF changed /\ sending.ok THEN text
                                   ELSE message_before
              /\ error' = IF Caught(raised) THEN raised ELSE NoException
              /\ uncaught' = IF raised = NoException \/ Caught(raised)
                             THEN uncaught ELSE raised
              /\ pc' = IF raised = NoException \/ ~Caught(raised)
                       THEN "finally" ELSE "except"
              /\ sent' = Record(IF changed
                                 THEN [sent EXCEPT !.status = text]
                                 ELSE sent, sent)
              /\ older' = Record(IF changed THEN sent.status ELSE older,
                                 older)
              /\ calls' = Record(calls \cup {"get"}
                                  \cup (IF changed THEN {"send"} ELSE {}),
                                 calls)
              /\ cyc' = Record(
                   [ran |-> TRUE,
                    cursor0 |-> current_timestamp,
                    mb0 |-> message_before,
                    meb0 |-> message_error_before,
                    older0 |-> older,
                    sent0 |-> sent,
                    failed |-> raised # NoException,
                    raised |-> raised,
                    rendered |-> IF homeworks.ok /\ homeworks.val # <<>>
                                    /\ parsed.ok
                                 THEN parsed.val ELSE None,
                    sends |-> IF changed
                              THEN <<Sending("status", text, delivered)>>
                              ELSE <<>>,
                    sleeps |-> 0,
                    validated |-> homeworks.ok,
                    dated |-> homeworks.ok
                              /\ "current_date" \in DOMAIN response.val.v,
                    date |-> IF homeworks.ok
                             THEN Get(response.val.v, "current_date", 0)
                             ELSE 0,
                    now |-> IF homeworks.ok THEN now ELSE 0,
                    empty |-> homeworks.ok /\ homeworks.val = <<>>,
                    bad |-> /\ homeworks.ok
                            /\ \E i \in 1..Len(homeworks.val) :
                                  ~parse_status(homeworks.val[i]).ok,
                    first |-> IF homeworks.ok /\ homeworks.val # <<>>
                              THEN <<homeworks.val[1]>> ELSE <<>>],
                   cyc)
    /\ UNCHANGED <<fixed, message_error, message_error_before, prev>>

\* the except block: the error text is built, compared with the last one
\* sent, and dispatched
ExceptBlock ==
    /\ pc = "except"
    /\ \E delivered \in BOOLEAN :
          LET text == ErrorMessage(error)
              changed == ErrorChanged(text, message_error_before)
              sending == IF changed THEN send_message(text, delivered)
                         ELSE Return(None)
          IN  /\ ~changed => delivered
              /\ message_error' = text
              /\ message_error_before' = IF changed /\ sending.ok THEN text
                                         ELSE message_error_before
              /\ uncaught' = IF sending.ok THEN NoException ELSE sending.exc
              /\ sent' = Record(IF changed
                                 THEN [sent EXCEPT !.error = text]
                                 ELSE sent, sent)
              /\ calls' = Record(calls \cup (IF changed THEN {"send"}
                                               ELSE {}), calls)
              /\ cyc' = Record(
                     IF changed
                     THEN [cyc EXCEPT !.sends =
                              Append(@, Sending("error", text, delivered))]
                     ELSE cyc, cyc)
    /\ error' = NoException
    /\ pc' = "finally"
    /\ UNCHANGED <<fixed, current_timestamp, message, message_before, older,
                   prev>>

\* variant: the sleep closes the try body instead of standing in finally
SleepSkippedOnFailure ==
    /\ pc = "finally"
    /\ cyc' = Record([NoCycle EXCEPT !.ran = TRUE,
                                     !.sleeps = IF cyc.failed THEN cyc.sleeps
                                                ELSE cyc.sleeps + 1], cyc)
    /\ prev' = Record(Summary(cyc), prev)
    /\ pc' = IF uncaught = NoException THEN "try" ELSE "exit"
    /\ UNCHANGED <<fixed, locals, error, uncaught, sent, older, calls>>

\* the finally block: time.sleep(RETRY_TIME), then the next iteration unless
\* an exception is travelling out of the except block
Sleep ==
    /\ pc = "finally"
    /\ cyc' = Record([NoCycle EXCEPT !.ran = TRUE,
                                     !.sleeps = cyc.sleeps + 1], cyc)
    /\ prev' = Record(Summary(cyc), prev)
    /\ pc' = IF uncaught = NoException THEN "try" ELSE "exit"
    /\ UNCHANGED <<fixed, locals, error, uncaught, sent, older, calls>>

Next ==
    \/ CheckTokens
    \/ MakeBot
    \/ GetCurrentTime
    \/ TryBody
    \/ ExceptBlock
    \/ Sleep

Spec == Init /\ [][Next]_vars

\* the interpreter keeps running main(): a request, a send and a sleep each
\* return or raise
LiveSpec == LiveInit /\ [][Next]_vars /\ WF_vars(Next)

-----------------------------------------------------------------------------
(* check_response called on its own, on every payload of the input sets.   *)

\* the payloads of the polls and, as further values that are no dict, the
\* homeworks lists sent bare
CallPayloads == Payloads \cup {List(hs) : hs \in HomeworkLists}

Calls == {[fn |-> "check_response", val |-> p] : p \in CallPayloads}

FnInit == Start /\ observe = FALSE /\ arg \in Calls /\ returned = None

CallCheckResponse ==
    /\ arg.fn = "check_response"
    /\ returned = None
    /\ returned' = <<check_response(arg.val)>>
    /\ UNCHANGED <<PRACTICUM_TOKEN, TELEGRAM_TOKEN, TELEGRAM_CHAT_ID, observe,
                   arg, pc, locals, error, uncaught, sent, older, calls, cyc,
                   prev>>

FnNext == CallCheckResponse

FnSpec == FnInit /\ [][FnNext]_vars

-----------------------------------------------------------------------------
(* Properties.                                                             *)

\* the work of the cycle (try body and except block) is done, the sleep of
\* the finally block is still ahead
CycleEnd == pc = "finally"

SendsOf(c, kind) == {i \in 1..Len(c.sends) : c.sends[i].kind = kind}
StatusSends(c) == Cardinality(SendsOf(c, "status"))
ErrorSends(c) == Cardinality(SendsOf(c, "error"))

\* C1: in a cycle without failure the status text is given to send_message
\* exactly when the text rendered in the cycle differs from the last-sent
\* status cache, and the cache then holds that text; of two consecutive
\* successful cycles that both render a text, the second sends exactly when
\* its text differs from the first's, so the same text twice makes one send
\* and two different texts make two.
C1_StatusDedup ==
    (CycleEnd /\ ~cyc.failed) =>
        /\ StatusSends(cyc) <= 1
        /\ StatusSends(cyc) = 1
               <=> (cyc.rendered # None /\ cyc.rendered # cyc.mb0)
        /\ \A i \in SendsOf(cyc, "status") :
               /\ cyc.sends[i].text = cyc.rendered
               /\ message_before = cyc.rendered
        /\ StatusSends(cyc) = 0 => message_before = cyc.mb0
        /\ (prev.ran /\ ~prev.failed /\ prev.rendered # None
                /\ cyc.rendered # None) =>
               /\ cyc.rendered = prev.rendered => StatusSends(cyc) = 0
               /\ cyc.rendered # prev.rendered => StatusSends(cyc) = 1
               /\ prev.nsends = 1 =>
                      prev.nsends + StatusSends(cyc) =
                          IF cyc.rendered = prev.rendered THEN 1 ELSE 2

\* the same text rendered in two consecutive cycles: sent by the first,
\* suppressed by the second
C1_Witness ==
    /\ CycleEnd /\ ~cyc.failed
    /\ prev.ran /\ ~prev.failed /\ prev.nsends = 1
    /\ cyc.rendered # None /\ cyc.rendered = prev.rendered
    /\ StatusSends(cyc) = 0

\* C2: in a cycle with a failure the error text built from that failure is
\* given to send_message exactly when it differs from the last-sent error
\* cache, and the cache then holds that text; a different text is announced
\* although no status message changed, the same text is not.
C2_ErrorDedup ==
    (CycleEnd /\ cyc.failed) =>
        /\ message_error = ErrorMessage(cyc.raised)
        /\ ErrorSends(cyc) <= 1
        /\ ErrorSends(cyc) = 1 <=> message_error # cyc.meb0
        /\ \A i \in SendsOf(cyc, "error") :
               /\ cyc.sends[i].text = message_error
               /\ message_error_before = message_error
        /\ ErrorSends(cyc) = 0 => message_error_before = cyc.meb0

\* an announced failure is followed by a failure with another text, which
\* is announced as well, in a cycle that sends no status message
C2_Witness ==
    /\ CycleEnd /\ cyc.failed
    /\ cyc.meb0 # None /\ message_error # cyc.meb0
    /\ ErrorSends(cyc) = 1 /\ StatusSends(cyc) = 0
    /\ message_error_before = message_error

\* C3 as stated: after a cycle without failure the cursor is the payload's
\* current_date when the payload carries one, and the cursor from before
\* the cycle when it does not.
C3_CursorKeptWithoutDate ==
    (CycleEnd /\ ~cyc.failed) =>
        /\ cyc.dated => current_timestamp = cyc.date
        /\ ~cyc.dated => current_timestamp = cyc.cursor0

\* C3 amended: after a cycle without failure the cursor is the payload's
\* current_date when the payload carries one, and the reading of the wall
\* clock taken in that cycle when it does not.
C3_CursorFromPayloadOrClock ==
    (CycleEnd /\ ~cyc.failed) =>
        /\ cyc.dated => current_timestamp = cyc.date
        /\ ~cyc.dated => current_timestamp = cyc.now

\* a payload without current_date moves the cursor to the clock reading
C3_Witness ==
    /\ CycleEnd /\ ~cyc.failed /\ ~cyc.dated
    /\ current_timestamp = cyc.now
    /\ current_timestamp # cyc.cursor0

\* C4: a cycle in which a failure is recorded ends with the cursor it
\* started with.
C4_CursorKeptOnFailure ==
    (CycleEnd /\ cyc.failed) => current_timestamp = cyc.cursor0

\* C5: every cycle sleeps exactly once, after its work and before the next
\* poll: no sleep has happened while the try body or the except block is
\* still to finish, and when the next poll is due the cycle before it has
\* slept once.
C5_SleepOncePerCycle ==
    /\ cyc.sleeps <= 1
    /\ pc \in {"except", "finally"} => cyc.sleeps = 0
    /\ (pc = "try" /\ cyc.ran) => cyc.sleeps = 1

\* the next poll is due after a cycle that failed and sent nothing new
C5_Witness ==
    /\ pc = "try" /\ cyc.ran /\ cyc.sleeps = 1
    /\ prev.failed /\ prev.nsends = 0

LoopPCs == {"try", "except", "finally"}

\* C6: once the loop is entered it is never left, whatever fails inside a
\* cycle, and unless main() ended before the loop, the poll is due again and
\* again and the sleep of the finally block is reached again and again.
C6_LoopNeverEnds ==
    /\ [][(pc \in LoopPCs) => (pc' \in LoopPCs)]_vars
    /\ \/ <>[](pc \notin LoopPCs)
       \/ []<>(pc = "try") /\ []<>(pc = "finally")

\* the loop is back at the poll after a cycle that failed
C6_Witness ==
    /\ pc = "try"
    /\ message_error # None /\ message_error_before = message_error
    /\ message = None

Undelivered(c, kind) == {i \in SendsOf(c, kind) : ~c.sends[i].delivered}

\* C7: a send that fails in the transport stays inside send_message: after
\* a failed status send the cycle is no failure cycle and reaches the
\* finally block with no error text sent, and after a failed error send no
\* exception travels out of the loop.
C7_SendFailureSwallowed ==
    /\ Undelivered(cyc, "status") # {} =>
           /\ ~cyc.failed
           /\ pc = "finally"
           /\ error = NoException
           /\ ErrorSends(cyc) = 0
    /\ Undelivered(cyc, "error") # {} => pc = "finally"
    /\ (Undelivered(cyc, "status") \cup Undelivered(cyc, "error")) # {} =>
           uncaught = NoException
    /\ pc \in LoopPCs => uncaught = NoException

\* a status send failed and the cycle ended as a successful one
C7_Witness ==
    /\ CycleEnd /\ ~cyc.failed
    /\ Undelivered(cyc, "status") # {}
    /\ message_before = cyc.rendered

\* C8: a cycle without failure leaves the last-sent error cache as it was,
\* and a failure whose text equals the cache is not announced, also when
\* the cycle before it succeeded.
C8_ErrorCacheKept ==
    /\ (CycleEnd /\ ~cyc.failed) =>
           /\ message_error_before = cyc.meb0
           /\ ErrorSends(cyc) = 0
    /\ (CycleEnd /\ cyc.failed /\ ErrorMessage(cyc.raised) = cyc.meb0) =>
           /\ ErrorSends(cyc) = 0
           /\ message_error_before = cyc.meb0

\* the text of an earlier failure returns after a successful cycle and is
\* not sent again
C8_Witness ==
    /\ CycleEnd /\ cyc.failed
    /\ prev.ran /\ ~prev.failed
    /\ cyc.meb0 # None /\ ErrorMessage(cyc.raised) = cyc.meb0
    /\ ErrorSends(cyc) = 0

\* C9 as stated, for the status slot: a status text is sent once, so a send
\* repeats neither the text sent last before it nor the one sent before
\* that (A, then B, then A again sends no second A).
C9_StatusTextSentOnce ==
    CycleEnd =>
        \A i \in SendsOf(cyc, "status") :
            cyc.sends[i].text \notin {cyc.mb0, cyc.older0}

\* C9 amended: a text is sent once per change of the text of its kind: a
\* cycle sends at most one text of a kind, the text differs from the one
\* sent last of that kind, and a rendered text that differs from the one
\* sent last is sent, also when it was sent before that (A, B, A sends A
\* twice).
C9_SentOncePerChange ==
    CycleEnd =>
        /\ StatusSends(cyc) <= 1 /\ ErrorSends(cyc) <= 1
        /\ \A i \in SendsOf(cyc, "status") :
               cyc.sends[i].text # cyc.sent0.status
        /\ \A i \in SendsOf(cyc, "error") :
               cyc.sends[i].text # cyc.sent0.error
        /\ (~cyc.failed /\ cyc.rendered # None
                /\ cyc.rendered # cyc.sent0.status) => StatusSends(cyc) = 1
        /\ (cyc.failed /\ ErrorMessage(cyc.raised) # cyc.sent0.error) =>
               ErrorSends(cyc) = 1

\* A, B, A: the text sent before the last one is sent again
C9_Witness ==
    /\ CycleEnd /\ StatusSends(cyc) = 1
    /\ cyc.older0 # None /\ cyc.rendered = cyc.older0
    /\ cyc.mb0 # cyc.older0
    /\ sent.status = cyc.older0

AllTokens == {PRACTICUM_TOKEN, TELEGRAM_TOKEN, TELEGRAM_CHAT_ID}

\* C10: check_tokens() is true only if all three values are present and
\* non-empty, so main() gets past the check with such values only.
C10_TokensPresentAndNonEmpty ==
    /\ check_tokens => \A value \in AllTokens : value # None /\ value # <<"">>
    /\ pc \notin {"start", "exit"} =>
           \A value \in AllTokens : value # None /\ value # <<"">>

Missing == \E value \in AllTokens : value = None

\* C11: with any of the three configuration values missing, main() stays
\* at its first statement or has ended there with TokensError: no bot is
\* built, no request and no send is made, and the loop is not entered.
C11_MissingTokenStopsEarly ==
    Missing =>
        /\ pc \in {"start", "exit"}
        /\ pc = "exit" => uncaught.type = "TokensError"
        /\ calls = {}
        /\ ~cyc.ran /\ ~prev.ran
        /\ sent = [status |-> None, error |-> None]

\* main() has ended with TokensError although only the bot token was missing
C11_Witness ==
    /\ TELEGRAM_TOKEN = None
    /\ PRACTICUM_TOKEN # None /\ TELEGRAM_CHAT_ID # None
    /\ pc = "exit" /\ uncaught.type = "TokensError"
    /\ calls = {}

\* C12: main() ends only with the configuration error of check_tokens or
\* with the error of the bot constructor; a failure of the remote endpoint,
\* the start-up request of get_current_time included, does not end it.
C12_TerminalOnlyFromSetup ==
    pc = "exit" => uncaught.type \in {"TokensError", "InvalidToken"}

IsDict(p) == p.t = "dict"
HasHomeworks(p) == IsDict(p) /\ "homeworks" \in DOMAIN p.v
HasList(p) == HasHomeworks(p) /\ p.v.homeworks.t = "list"

\* C13: check_response fails on the first check its argument violates: a
\* value that is no dict raises the TypeError "not a dict"; a dict without
\* the key homeworks, the empty dict included, raises the KeyError of the
\* missing key; a dict whose homeworks is no list raises the TypeError "not
\* a list"; any other argument has its homeworks list returned, the same
\* elements in the same order.
C13_CheckResponseOrder ==
    returned # None =>
        LET p == arg.val
            r == returned[1]
        IN  /\ ~IsDict(p) =>
                   /\ ~r.ok /\ r.exc.type = "TypeError"
                   /\ r.exc.str[1] = "The response is not a dict."
            /\ (IsDict(p) /\ ~HasHomeworks(p)) =>
                   /\ ~r.ok /\ r.exc.type = "KeyError"
                   /\ r.exc.str[2] = "No key homeworks in the dict."
            /\ (HasHomeworks(p) /\ ~HasList(p)) =>
                   /\ ~r.ok /\ r.exc.type = "TypeError"
                   /\ r.exc.str[1] = "Homeworks is not a list."
            /\ HasList(p) =>
                   /\ r.ok
                   /\ Len(r.val) = Len(p.v.homeworks.v)
                   /\ \A i \in 1..Len(r.val) : r.val[i] = p.v.homeworks.v[i]

\* check_response has returned a list of two different homeworks
C13_Witness ==
    /\ returned # None /\ HasList(arg.val)
    /\ returned[1].ok /\ Len(returned[1].val) = 2
    /\ returned[1].val[1] # returned[1].val[2]
    /\ returned[1].val = arg.val.v.homeworks.v

\* C14: a cycle whose validated homeworks list holds, at any position, an
\* element without homework_name, without status or with an unknown status
\* is a failure cycle: its failure is recorded as the error text and no
\* status text is sent in it.
C14_EveryElementValidated ==
    (CycleEnd /\ cyc.bad) =>
        /\ cyc.failed
        /\ message_error = ErrorMessage(cyc.raised)
        /\ StatusSends(cyc) = 0

KnownStatuses == {"approved", "reviewing", "rejected"}
Fragments(text) == {text[i] : i \in DOMAIN text}

\* C15: when the first homework of a validated list has a status outside
\* approved, reviewing, rejected, parse_status raises instead of returning
\* a text: the cycle is a failure cycle, the error text is built from that
\* failure and goes the way of the error texts (sent unless it equals the
\* last one sent), no status text is sent, the pending status text is
\* untouched and no exception leaves the loop.  When it has a name and a
\* status inside that set, parse_status returns a text that holds the
\* name and the verdict of the status, and it is the pending status text.
C15_UnknownStatusIsFailure ==
    (CycleEnd /\ cyc.first # <<>> /\ "status" \in DOMAIN cyc.first[1]) =>
        LET homework == cyc.first[1] IN
        /\ homework.status \notin KnownStatuses =>
               /\ ~parse_status(homework).ok
               /\ cyc.rendered = None
               /\ cyc.failed /\ cyc.raised = parse_status(homework).exc
               /\ message_error = ErrorMessage(cyc.raised)
               /\ ErrorSends(cyc) = IF message_error = cyc.meb0 THEN 0 ELSE 1
               /\ \A i \in SendsOf(cyc, "error") :
                      cyc.sends[i].text = message_error
               /\ StatusSends(cyc) = 0
               /\ message = cyc.mb0 /\ message_before = cyc.mb0
               /\ uncaught = NoException
        /\ (homework.status \in KnownStatuses
                /\ "homework_name" \in DOMAIN homework) =>
               /\ parse_status(homework).ok
               /\ cyc.rendered = parse_status(homework).val
               /\ homework.homework_name \in Fragments(cyc.rendered)
               /\ HOMEWORK_VERDICTS[homework.status]
                      \in Fragments(cyc.rendered)
               /\ ~cyc.failed /\ message = cyc.rendered

\* after a status text was sent, the first homework comes with an unknown
\* status and the failure is announced
C15_Witness ==
    /\ CycleEnd /\ cyc.first # <<>> /\ "status" \in DOMAIN cyc.first[1]
    /\ cyc.first[1].status \notin KnownStatuses
    /\ cyc.mb0 # None
    /\ cyc.failed /\ ErrorSends(cyc) = 1 /\ StatusSends(cyc) = 0

\* C16: a cycle whose poll and validation succeed with an empty homeworks
\* list is no failure cycle and sends nothing of either kind, whatever was
\* sent, or failed to be sent, before it: the pending status text and both
\* last-sent caches are as they were when the cycle began.
C16_EmptyListIsQuiet ==
    (CycleEnd /\ cyc.empty) =>
        /\ ~cyc.failed /\ error = NoException /\ uncaught = NoException
        /\ cyc.sends = <<>>
        /\ sent = cyc.sent0
        /\ message = cyc.mb0 /\ message_before = cyc.mb0
        /\ message_error_before = cyc.meb0

\* an empty list arrives after a status text and an error text were sent,
\* the cycle before it having failed
C16_Witness ==
    /\ CycleEnd /\ cyc.empty
    /\ cyc.mb0 # None /\ cyc.meb0 # None
    /\ prev.ran /\ prev.failed
    /\ cyc.sends = <<>>

\* C17: a send that fails in the transport leaves the last-sent cache of
\* its kind as it was before the cycle, so the cache never holds a text
\* that was not delivered.
C17_CacheHoldsDeliveredOnly ==
    CycleEnd =>
        /\ Undelivered(cyc, "status") # {} => message_before = cyc.mb0
        /\ Undelivered(cyc, "error") # {} =>
               message_error_before = cyc.meb0
        /\ \A i \in 1..Len(cyc.sends) :
               ~cyc.sends[i].delivered =>
                   cyc.sends[i].text \notin {message_before,
                                             message_error_before}

\* C18: a cycle sends at most one text in all: a failure cycle sends no
\* status text, a cycle without failure sends no error text, and no kind
\* is sent twice.
C18_OneSendPerCycle ==
    /\ Len(cyc.sends) <= 1
    /\ StatusSends(cyc) <= 1 /\ ErrorSends(cyc) <= 1
    /\ StatusSends(cyc) + ErrorSends(cyc) <= 1
    /\ CycleEnd =>
           /\ cyc.failed => StatusSends(cyc) = 0
           /\ ~cyc.failed => ErrorSends(cyc) = 0

\* the cycle after one that sent a status text fails and sends its error
\* text, and nothing else
C18_Witness ==
    /\ CycleEnd /\ cyc.failed
    /\ prev.ran /\ prev.nsends = 1
    /\ Len(cyc.sends) = 1 /\ cyc.sends[1].kind = "error"

\* C19: when a poll is due the pending status text equals the last-sent
\* status cache; no text given to send_message is None; a failure cycle
\* ends with both variables as they were; and a cycle that begins with
\* nothing rendered so far and renders nothing sends no status text.
C19_PendingEqualsCache ==
    /\ pc = "try" => message = message_before
    /\ \A i \in 1..Len(cyc.sends) : cyc.sends[i].text # None
    /\ (CycleEnd /\ cyc.failed) =>
           message = cyc.mb0 /\ message_before = cyc.mb0
    /\ (CycleEnd /\ cyc.mb0 = None /\ cyc.rendered = None) =>
           /\ StatusSends(cyc) = 0
           /\ message = None /\ message_before = None

\* a poll is due after a failure cycle, a status text having been rendered
\* before it
C19_Witness ==
    /\ pc = "try" /\ prev.ran /\ prev.failed
    /\ message # None /\ message = message_before

\* C20: the texts given to send_message are the same for every value of
\* the API token, the polls having the same outcomes: no such text has the
\* value of PRACTICUM_TOKEN among the values formatted into it.
C20_SentTextsFreeOfToken ==
    \A i \in 1..Len(cyc.sends) :
        Str(PRACTICUM_TOKEN) \notin Fragments(cyc.sends[i].text)

====
